---- MODULE Spec2Model ----
(***************************************************************************)
(* Services of gitxnav/SP-Final-Project.                                   *)
(*                                                                         *)
(*   - the FastAPI prediction router (src/backend/api/routes/prediction.py)*)
(*     with its global model registry and the ensemble consensus;          *)
(*   - the Flask service (src/PhysiCKD/backend/app.py) with its model and  *)
(*     its comparison statistics computed at import time, and the          *)
(*     statistics block followed on one feature column ("stats");          *)
(*   - the training router (src/backend/api/routes/training.py): request   *)
(*     handlers and the background training tasks they schedule;           *)
(*   - the iris service (src/main.py).                                     *)
(*                                                                         *)
(* The services are separate processes: a behaviour is the life of one     *)
(* process, `service` says which.  A request handler runs to completion    *)
(* (the FastAPI handlers never suspend: predict() awaits nothing), so each *)
(* handler is one action; its answer stays in `resp` until it is           *)
(* delivered.  A background training task runs in a worker thread: each of *)
(* its blocks is a step, taken between two handlers.  Everything the       *)
(* environment decides (which model files exist, what a classifier answers *)
(* for the patient, whether the MLflow server is reachable, whether a      *)
(* trainer call returns or raises) is an input of the action that reads    *)
(* it.                                                                     *)
(*                                                                         *)
(* Confidences are rationals k / ConfScale kept as the integer k; a ratio  *)
(* is a pair <<numerator, denominator>>.                                   *)
(***************************************************************************)
EXTENDS Integers, Sequences, FiniteSets, Bags

VARIABLES
    service,            \* which process this is: "flask", "fastapi", ...
    pc,                 \* "boot" before startup has run, then "serving"
    strHash,            \* this process's hash slot of each label string
    models,             \* prediction.models: the keys, in insertion order
    flaskModel,         \* app.model: "loaded" or "None"
    comparison_stats,   \* app.comparison_stats
    statsComputations,  \* how many times the statistics block has run
    req,                \* the request being answered
    resp,               \* the answer in flight
    training_status,    \* training.training_status
    tasks,              \* the background training tasks not yet finished
    trainer_model,      \* ModelTrainer.model of each trainer object
    model_files         \* the files of the trainers' model_dir

vars == <<service, pc, strHash, models, flaskModel, comparison_stats,
          statsComputations, req, resp, training_status, tasks,
          trainer_model, model_files>>

\* the state of the ModelTrainer objects
toolVars == <<trainer_model, model_files>>

\* the state of the training router
trainVars == <<training_status, tasks>>

-----------------------------------------------------------------------------
(* Bounds of the model *)

\* confidences are multiples of 1 / ConfScale
ConfScale == 1

\* a request or a dataset lacks at most this many of the nine features
MaxMissing == 2

-----------------------------------------------------------------------------
(* Data *)

FeatureNames == {"hemo", "sg", "sc", "rbcc", "pcv", "htn", "dm", "bp", "age"}

CategoricalFeatures == {"dm", "htn", "sg"}

\* model_files of load_models, in the order the dict literal lists them
ModelFiles == <<"KNN", "SVM", "GradientBoosting", "HistGradientBoosting">>

ModelNames == {ModelFiles[i] : i \in 1 .. Len(ModelFiles)}

Labels == {"ckd", "notckd"}

\* A feature mapping with at most MaxMissing of the features absent.
KeySets == {ks \in SUBSET FeatureNames :
                Cardinality(FeatureNames \ ks) <= MaxMissing}

\* What one classifier does for the patient of the request: predict raises
\* (fails), or it returns class pred; hasProba says whether the object has a
\* predict_proba, and p1 is then the probability it gives class 1 (in
\* 1/ConfScale; class 0 gets the rest).
Behaviours ==
    {[fails |-> TRUE, pred |-> 0, hasProba |-> FALSE, p1 |-> 0]}
    \cup {[fails |-> FALSE, pred |-> p, hasProba |-> FALSE, p1 |-> 0] : p \in 0 .. 1}
    \cup {[fails |-> FALSE, pred |-> p, hasProba |-> TRUE, p1 |-> q] :
              p \in 0 .. 1, q \in 0 .. ConfScale}

\* A model file on disk when load_models looks at it.
FileStates == {"absent", "corrupt", "ok"}

Elems(s) == {s[i] : i \in 1 .. Len(s)}

RECURSIVE Count(_, _)
Count(list, x) ==
    IF list = <<>> THEN 0
    ELSE (IF Head(list) = x THEN 1 ELSE 0) + Count(Tail(list), x)

RECURSIVE SeqSum(_)
SeqSum(list) == IF list = <<>> THEN 0 ELSE Head(list) + SeqSum(Tail(list))

NoReq == [endpoint |-> "none"]

NoResp == [endpoint |-> "none", status |-> 0, calls |-> 0]

-----------------------------------------------------------------------------
(* Python's set of strings, as max(set(predictions_list), ...) walks it.   *)
(* A small set is a table of slots walked in slot order; a key goes to the *)
(* slot its hash names, or to another slot when that one is taken.  String *)
(* hashes are seeded per process.  The labels are only "ckd" and "notckd", *)
(* and for two keys a table of two slots has every walk order the real     *)
(* table has: fixed by the hashes when they differ, decided by the         *)
(* insertion order when they collide.                                      *)

Slots == 0 .. 1

Empty == "<empty>"

Probe(i) == IF i + 1 \in Slots THEN i + 1 ELSE 0

SetAdd(table, key) ==
    IF \E s \in Slots : table[s] = key THEN table
    ELSE IF table[strHash[key]] = Empty
         THEN [table EXCEPT ![strHash[key]] = key]
         ELSE [table EXCEPT ![Probe(strHash[key])] = key]

RECURSIVE SetTable(_, _)
SetTable(list, table) ==
    IF list = <<>> THEN table
    ELSE SetTable(Tail(list), SetAdd(table, Head(list)))

RECURSIVE SetIterFrom(_, _)
SetIterFrom(table, i) ==
    IF i \notin Slots THEN <<>>
    ELSE (IF table[i] = Empty THEN <<>> ELSE <<table[i]>>)
         \o SetIterFrom(table, i + 1)

\* list(set(list)): the distinct elements in the order the set yields them
PySet(list) == SetIterFrom(SetTable(list, [s \in Slots |-> Empty]), 0)

\* max(iter, key=list.count): the first element of iter with the largest key
RECURSIVE MaxByCount(_, _, _)
MaxByCount(iter, list, best) ==
    IF iter = <<>> THEN best
    ELSE MaxByCount(Tail(iter), list,
                    IF Count(list, Head(iter)) > Count(list, best)
                    THEN Head(iter) ELSE best)

-----------------------------------------------------------------------------
(* FastAPI prediction router *)

\* PatientData: every field is Field(...), i.e. required.  A body that lacks
\* one never reaches a handler: the framework answers 422.
ValidPatient(keys) == FeatureNames \subseteq keys

ValidationError(endpoint) ==
    [endpoint |-> endpoint, status |-> 422, calls |-> 0]

\* load_models: models[name] = joblib.load(path) for each file that exists
\* and loads, in the order of model_files; an existing key keeps its place.
RECURSIVE LoadFrom(_, _, _)
LoadFrom(files, registry, fs) ==
    IF files = <<>> THEN [models |-> registry, loaded_count |-> 0]
    ELSE IF fs[Head(files)] = "ok"
         THEN LET rest == LoadFrom(Tail(files),
                                   IF Head(files) \in Elems(registry)
                                   THEN registry
                                   ELSE Append(registry, Head(files)),
                                   fs)
              IN [models |-> rest.models, loaded_count |-> rest.loaded_count + 1]
         ELSE LoadFrom(Tail(files), registry, fs)

load_models(registry, fs) == LoadFrom(ModelFiles, registry, fs)

LabelOf(prediction) == IF prediction = 1 THEN "ckd" ELSE "notckd"

\* Variant that reports proba[1], the probability of class ckd.
ConfidenceOfCkd(b) == IF b.hasProba THEN b.p1 ELSE ConfScale

\* confidence of predict: proba[prediction], or 1.0 without predict_proba
ConfidenceOf(b) ==
    IF b.hasProba
    THEN (IF b.pred = 1 THEN b.p1 ELSE ConfScale - b.p1)
    ELSE ConfScale

PredictError(status, calls) ==
    [endpoint |-> "predict", status |-> status, calls |-> calls,
     prediction |-> "none", prediction_numeric |-> 0, confidence |-> 0,
     model_used |-> "none"]

\* predict(patient, model_name) with classifier behaviour b
predict(registry, model_name, b, mlflowUp) ==
    IF model_name \notin Elems(registry) THEN PredictError(404, 0)
    ELSE IF ~mlflowUp THEN PredictError(500, 0)      \* mlflow.start_run raises
    ELSE IF b.fails THEN PredictError(500, 1)         \* model.predict raises
    ELSE [endpoint |-> "predict", status |-> 200, calls |-> 1,
          prediction |-> LabelOf(b.pred), prediction_numeric |-> b.pred,
          confidence |-> ConfidenceOf(b), model_used |-> model_name]

\* Variant of the loop that drops a model whose predict raises and goes on.
RECURSIVE CollectPredictionsSkipFailed(_, _, _, _)
CollectPredictionsSkipFailed(names, registry, beh, mlflowUp) ==
    IF names = <<>> THEN [ok |-> TRUE, preds |-> <<>>, calls |-> 0]
    ELSE LET p == predict(registry, Head(names), beh[Head(names)], mlflowUp)
             rest == CollectPredictionsSkipFailed(Tail(names), registry, beh,
                                                  mlflowUp)
         IN [ok |-> TRUE,
             preds |-> IF p.status = 200 THEN <<p>> \o rest.preds ELSE rest.preds,
             calls |-> p.calls + rest.calls]

\* The loop of predict_ensemble over models.keys(): the first failing
\* predict raises out of the loop.
RECURSIVE CollectPredictions(_, _, _, _)
CollectPredictions(names, registry, beh, mlflowUp) ==
    IF names = <<>> THEN [ok |-> TRUE, preds |-> <<>>, calls |-> 0]
    ELSE LET p == predict(registry, Head(names), beh[Head(names)], mlflowUp)
         IN IF p.status # 200
            THEN [ok |-> FALSE, preds |-> <<>>, calls |-> p.calls]
            ELSE LET rest == CollectPredictions(Tail(names), registry, beh, mlflowUp)
                 IN [ok |-> rest.ok,
                     preds |-> IF rest.ok THEN <<p>> \o rest.preds ELSE <<>>,
                     calls |-> p.calls + rest.calls]

PredictionsList(preds) == [i \in 1 .. Len(preds) |-> preds[i].prediction]

Confidences(preds) == [i \in 1 .. Len(preds) |-> preds[i].confidence]

\* Variant that takes the first model's vote as the consensus.
ConsensusPredFirstVote(list) == Head(list)

\* consensus_pred = max(set(predictions_list), key=predictions_list.count)
ConsensusPred(list) == MaxByCount(PySet(list), list, Head(PySet(list)))

\* Variant that divides by the number of distinct labels.
ConsensusConfidenceOverLabels(count, list) == <<count, Cardinality(Elems(list))>>

\* consensus_confidence = consensus_count / len(predictions_list)
ConsensusConfidence(count, list) == <<count, Len(list)>>

\* Variant that averages only the models that voted for the consensus.
AverageConfidenceOfMajority(preds) ==
    LET agreed(p) == p.prediction = ConsensusPred(PredictionsList(preds))
        voters == SelectSeq(preds, agreed)
    IN <<SeqSum(Confidences(voters)), Len(voters) * ConfScale>>

\* avg_confidence = sum(confidences) / len(confidences), as a ratio of 1
AverageConfidence(preds) ==
    <<SeqSum(Confidences(preds)), Len(preds) * ConfScale>>

\* Variant that calls a strict majority unanimous.
UnanimousByMajority(count, list) == 2 * count > Len(list)

\* "unanimous": consensus_count == len(predictions_list)
Unanimous(count, list) == count = Len(list)

NoConsensus ==
    [prediction |-> "none", consensus_count |-> 0, total |-> 0,
     consensus_confidence |-> <<0, 1>>, average_model_confidence |-> <<0, 1>>,
     unanimous |-> FALSE]

ComputeConsensus(preds) ==
    LET list == PredictionsList(preds)
        consensus_pred == ConsensusPred(list)
        consensus_count == Count(list, consensus_pred)
    IN [prediction |-> consensus_pred,
        consensus_count |-> consensus_count,
        total |-> Len(list),
        consensus_confidence |-> ConsensusConfidence(consensus_count, list),
        average_model_confidence |-> AverageConfidence(preds),
        unanimous |-> Unanimous(consensus_count, list)]

EnsembleError(status, calls) ==
    [endpoint |-> "ensemble", status |-> status, calls |-> calls,
     individual_predictions |-> <<>>, consensus |-> NoConsensus]

\* The try block of predict_ensemble.  With no prediction collected,
\* max() of an empty set raises; any exception becomes a 500.
EnsembleTry(registry, beh, mlflowUp) ==
    LET got == CollectPredictions(registry, registry, beh, mlflowUp)
    IN IF ~got.ok \/ got.preds = <<>> THEN EnsembleError(500, got.calls)
       ELSE [endpoint |-> "ensemble", status |-> 200, calls |-> got.calls,
             individual_predictions |-> got.preds,
             consensus |-> ComputeConsensus(got.preds)]

\* Variant without the `if not models` guard.
PredictEnsembleUnguarded(registry, beh, mlflowUp) ==
    EnsembleTry(registry, beh, mlflowUp)

predict_ensemble(registry, beh, mlflowUp) ==
    IF registry = <<>> THEN EnsembleError(503, 0)
    ELSE EnsembleTry(registry, beh, mlflowUp)

FastApiIdle == service = "fastapi" /\ pc = "serving" /\ resp = NoResp

\* startup_event: load_models() into the empty registry
FastApiStartup ==
    /\ service = "fastapi" /\ pc = "boot"
    /\ \E fs \in [ModelNames -> FileStates] :
           models' = load_models(<<>>, fs).models
    /\ pc' = "serving"
    /\ UNCHANGED <<service, strHash, flaskModel, comparison_stats,
                   statsComputations, req, resp>>
    /\ UNCHANGED trainVars
    /\ UNCHANGED toolVars

\* Variant that loads over the registry it finds, without clearing it.
ReloadWithoutClearing(registry, fs) == load_models(registry, fs)

\* reload_models: models = {} and then load_models()
reload_models(registry, fs) == load_models(<<>>, fs)

\* POST /reload-models; the request keeps the registry the handler found
ReloadModels ==
    /\ FastApiIdle
    /\ \E fs \in [ModelNames -> FileStates] :
           LET got == reload_models(models, fs)
           IN /\ models' = got.models
              /\ req' = [endpoint |-> "reload", files |-> fs,
                         before |-> models]
              /\ resp' = [endpoint |-> "reload", status |-> 200, calls |-> 0,
                          loaded_count |-> got.loaded_count,
                          models |-> got.models]
    /\ UNCHANGED <<service, pc, strHash, flaskModel, comparison_stats,
                   statsComputations>>
    /\ UNCHANGED trainVars
    /\ UNCHANGED toolVars

\* GET /ready: the registry is imported from the prediction router; an empty
\* registry or an exception answers ready false; a failing MLflow call is
\* logged and passed over.
readiness_check(registry, imported, mlflowUp) ==
    IF ~imported
    THEN [endpoint |-> "ready", status |-> 200, calls |-> 0,
          ready |-> FALSE, models_loaded |-> 0]
    ELSE IF registry = <<>>
    THEN [endpoint |-> "ready", status |-> 200, calls |-> 0,
          ready |-> FALSE, models_loaded |-> 0]
    ELSE [endpoint |-> "ready", status |-> 200, calls |-> 0,
          ready |-> TRUE, models_loaded |-> Len(registry)]

ReadinessCheck ==
    /\ FastApiIdle
    /\ \E imported \in BOOLEAN, mlflowUp \in BOOLEAN :
           /\ req' = [endpoint |-> "ready", imported |-> imported,
                      mlflowUp |-> mlflowUp]
           /\ resp' = readiness_check(models, imported, mlflowUp)
    /\ UNCHANGED <<service, pc, strHash, models, flaskModel, comparison_stats,
                   statsComputations>>
    /\ UNCHANGED trainVars
    /\ UNCHANGED toolVars

\* POST /predict
Predict ==
    /\ FastApiIdle
    /\ \E keys \in KeySets, model_name \in ModelNames :
           \/ /\ ~ValidPatient(keys)
              /\ req' = [endpoint |-> "predict", keys |-> keys]
              /\ resp' = ValidationError("predict")
           \/ /\ ValidPatient(keys)
              /\ \E b \in Behaviours, mlflowUp \in BOOLEAN :
                     /\ req' = [endpoint |-> "predict", keys |-> keys,
                                model_name |-> model_name, beh |-> b,
                                mlflowUp |-> mlflowUp]
                     /\ resp' = predict(models, model_name, b, mlflowUp)
    /\ UNCHANGED <<service, pc, strHash, models, flaskModel, comparison_stats,
                   statsComputations>>
    /\ UNCHANGED trainVars
    /\ UNCHANGED toolVars

\* POST /predict/ensemble
PredictEnsemble ==
    /\ FastApiIdle
    /\ \E keys \in KeySets :
           \/ /\ ~ValidPatient(keys)
              /\ req' = [endpoint |-> "ensemble", keys |-> keys]
              /\ resp' = ValidationError("ensemble")
           \/ /\ ValidPatient(keys)
              /\ \E beh \in [Elems(models) -> Behaviours], mlflowUp \in BOOLEAN :
                     /\ req' = [endpoint |-> "ensemble", keys |-> keys,
                                beh |-> beh, mlflowUp |-> mlflowUp]
                     /\ resp' = predict_ensemble(models, beh, mlflowUp)
    /\ UNCHANGED <<service, pc, strHash, models, flaskModel, comparison_stats,
                   statsComputations>>
    /\ UNCHANGED trainVars
    /\ UNCHANGED toolVars

\* The answer reaches the client; the next request can be taken.
Deliver ==
    /\ resp # NoResp
    /\ req' = NoReq
    /\ resp' = NoResp
    /\ UNCHANGED <<service, pc, strHash, models, flaskModel, comparison_stats,
                   statsComputations>>
    /\ UNCHANGED trainVars
    /\ UNCHANGED toolVars

-----------------------------------------------------------------------------
(* FastAPI: batch and example predictions *)

\* a batch carries at most MaxBatch patients
MaxBatch == 2

\* the feature mappings of a batch patient: complete, or one feature short
BatchKeySets == {ks \in KeySets : Cardinality(FeatureNames \ ks) <= 1}

BatchError(status, calls) ==
    [endpoint |-> "batch", status |-> status, calls |-> calls,
     predictions |-> <<>>, total_patients |-> 0]

\* Variant of the loop that leaves out a patient whose predict raises and
\* goes on with the next.
RECURSIVE BatchPredictionsSkipFailed(_, _, _, _)
BatchPredictionsSkipFailed(registry, model_name, behs, mlflowUp) ==
    IF behs = <<>> THEN [ok |-> TRUE, preds |-> <<>>, calls |-> 0]
    ELSE LET p == predict(registry, model_name, Head(behs), mlflowUp)
             rest == BatchPredictionsSkipFailed(registry, model_name,
                                                Tail(behs), mlflowUp)
         IN [ok |-> TRUE,
             preds |-> IF p.status = 200 THEN <<p>> \o rest.preds ELSE rest.preds,
             calls |-> p.calls + rest.calls]

\* The loop of predict_batch over request.patients: the first failing
\* predict raises out of the loop.
RECURSIVE BatchPredictions(_, _, _, _)
BatchPredictions(registry, model_name, behs, mlflowUp) ==
    IF behs = <<>> THEN [ok |-> TRUE, preds |-> <<>>, calls |-> 0]
    ELSE LET p == predict(registry, model_name, Head(behs), mlflowUp)
         IN IF p.status # 200
            THEN [ok |-> FALSE, preds |-> <<>>, calls |-> p.calls]
            ELSE LET rest == BatchPredictions(registry, model_name, Tail(behs),
                                              mlflowUp)
                 IN [ok |-> rest.ok,
                     preds |-> IF rest.ok THEN <<p>> \o rest.preds ELSE <<>>,
                     calls |-> p.calls + rest.calls]

\* predict_batch(request, model_name); behs[i] is the classifier's behaviour
\* for patient i
predict_batch(registry, model_name, behs, mlflowUp) ==
    IF model_name \notin Elems(registry) THEN BatchError(404, 0)
    ELSE LET got == BatchPredictions(registry, model_name, behs, mlflowUp)
         IN IF ~got.ok THEN BatchError(500, got.calls)
            ELSE [endpoint |-> "batch", status |-> 200, calls |-> got.calls,
                  predictions |-> got.preds,
                  total_patients |-> Len(got.preds)]

\* POST /predict/batch
PredictBatch ==
    /\ FastApiIdle
    /\ \E n \in 0 .. MaxBatch, model_name \in ModelNames :
       \E keys \in [1 .. n -> BatchKeySets] :
           \/ /\ \E i \in 1 .. n : ~ValidPatient(keys[i])
              /\ req' = [endpoint |-> "batch", n |-> n, valid |-> FALSE]
              /\ resp' = ValidationError("batch")
           \/ /\ \A i \in 1 .. n : ValidPatient(keys[i])
              /\ \E behs \in [1 .. n -> Behaviours], mlflowUp \in BOOLEAN :
                     /\ req' = [endpoint |-> "batch", n |-> n, valid |-> TRUE,
                                model_name |-> model_name, behs |-> behs,
                                mlflowUp |-> mlflowUp]
                     /\ resp' = predict_batch(models, model_name, behs, mlflowUp)
    /\ UNCHANGED <<service, pc, strHash, models, flaskModel, comparison_stats,
                   statsComputations>>
    /\ UNCHANGED trainVars
    /\ UNCHANGED toolVars

\* Variant that drops from the registry a model whose prediction failed.
PredictExampleEvicting ==
    /\ FastApiIdle
    /\ \E model_name \in ModelNames, b \in Behaviours, mlflowUp \in BOOLEAN :
           LET response == predict(models, model_name, b, mlflowUp)
           IN /\ req' = [endpoint |-> "example", keys |-> FeatureNames,
                         model_name |-> model_name, beh |-> b,
                         mlflowUp |-> mlflowUp]
              /\ resp' = response
              /\ models' = IF response.status = 500
                           THEN SelectSeq(models, LAMBDA m : m # model_name)
                           ELSE models
    /\ UNCHANGED <<service, pc, strHash, flaskModel, comparison_stats,
                   statsComputations>>
    /\ UNCHANGED trainVars
    /\ UNCHANGED toolVars

\* GET /predict/example: predict() on the fixed, complete example patient
PredictExample ==
    /\ FastApiIdle
    /\ \E model_name \in ModelNames, b \in Behaviours, mlflowUp \in BOOLEAN :
           /\ req' = [endpoint |-> "example", keys |-> FeatureNames,
                      model_name |-> model_name, beh |-> b,
                      mlflowUp |-> mlflowUp]
           /\ resp' = predict(models, model_name, b, mlflowUp)
    /\ UNCHANGED <<service, pc, strHash, models, flaskModel, comparison_stats,
                   statsComputations>>
    /\ UNCHANGED trainVars
    /\ UNCHANGED toolVars

-----------------------------------------------------------------------------
(* Flask service *)

\* The reference dataset as the import-time block finds it: the file may be
\* absent; a file that is read may be malformed (no status column, a value
\* float() rejects); columns are the feature columns it has.
Datasets ==
    {[exists |-> FALSE, wellFormed |-> FALSE, columns |-> {}]}
    \cup {[exists |-> TRUE, wellFormed |-> w, columns |-> c] :
              w \in BOOLEAN, c \in KeySets \cup {{}}}

StatKind(feature) ==
    IF feature \in CategoricalFeatures THEN "categorical" ELSE "continuous"

\* The try block at import: one entry per feature that is a column of the
\* dataset; any exception leaves comparison_stats = None.
ComputeComparisonStats(dataset) ==
    IF ~dataset.exists \/ ~dataset.wellFormed
    THEN [isNone |-> TRUE, features |-> {}]
    ELSE [isNone |-> FALSE, features |-> dataset.columns \cap FeatureNames]

\* Variant that indexes comparison_stats[feature] for every feature without
\* the two guards: None[...] and a missing key raise.
ComparisonDataUnguarded(stats) ==
    IF stats.isNone \/ ~(FeatureNames \subseteq stats.features)
    THEN [ok |-> FALSE, data |-> [f \in {} |-> "none"]]
    ELSE [ok |-> TRUE, data |-> [f \in FeatureNames |-> StatKind(f)]]

\* comparison_data of predict: filled only under `if comparison_stats:`
\* (None and {} are both falsy) and `if feature in comparison_stats`.
ComparisonData(stats) ==
    IF stats.isNone \/ stats.features = {}
    THEN [ok |-> TRUE, data |-> [f \in {} |-> "none"]]
    ELSE [ok |-> TRUE,
          data |-> [f \in FeatureNames \cap stats.features |-> StatKind(f)]]

FlaskError(status, error, calls) ==
    [endpoint |-> "flask_predict", status |-> status, calls |-> calls,
     error |-> error, class |-> 0, confidence |-> 0,
     prediction_text |-> "none", comparison_data |-> [f \in {} |-> "none"]]

\* Variant with `not any(...)`: only an object with none of the features is
\* refused.
MissingEveryFeature(keys) == ~(\E feature \in FeatureNames : feature \in keys)

\* `not all(feature in data for feature in feature_names)`
MissingFeatures(keys) == ~(\A feature \in FeatureNames : feature \in keys)

\* predict() of the Flask app for the JSON object with these keys
FlaskResponse(model, stats, keys, b) ==
    IF model = "None" THEN FlaskError(500, "Model not loaded", 0)
    ELSE IF MissingFeatures(keys)
         THEN FlaskError(400, "Missing features", 0)
    ELSE IF ~(FeatureNames \subseteq keys)          \* data[feature]: KeyError
         THEN FlaskError(500, "exception", 0)
    ELSE IF b.fails THEN FlaskError(500, "exception", 1)
    ELSE IF ~b.hasProba THEN FlaskError(500, "exception", 1)
    ELSE IF ~ComparisonData(stats).ok THEN FlaskError(500, "exception", 1)
    ELSE [endpoint |-> "flask_predict", status |-> 200, calls |-> 1,
          error |-> "none", class |-> b.pred,
          confidence |-> IF b.pred = 1 THEN b.p1 ELSE ConfScale - b.p1,
          prediction_text |-> IF b.pred = 1 THEN "CKD" ELSE "NO CKD",
          comparison_data |-> ComparisonData(stats).data]

\* Variant whose except branch resets the statistics.
StatsDroppedOnError(stats, response) ==
    IF response.status = 500 THEN [isNone |-> TRUE, features |-> {}] ELSE stats

\* What a request does to the module-level statistics: nothing.
StatsAfterRequest(stats, response) == stats

\* Import of the module: joblib.load of the model, then the statistics.
FlaskStartup ==
    /\ service = "flask" /\ pc = "boot"
    /\ flaskModel' \in {"loaded", "None"}
    /\ \E dataset \in Datasets :
           comparison_stats' = ComputeComparisonStats(dataset)
    /\ statsComputations' = statsComputations + 1
    /\ pc' = "serving"
    /\ UNCHANGED <<service, strHash, models, req, resp>>
    /\ UNCHANGED trainVars
    /\ UNCHANGED toolVars

\* POST /predict of the Flask app
FlaskPredict ==
    /\ service = "flask" /\ pc = "serving" /\ resp = NoResp
    /\ \E keys \in KeySets, b \in Behaviours :
           LET response == FlaskResponse(flaskModel, comparison_stats, keys, b)
           IN /\ req' = [endpoint |-> "flask_predict", keys |-> keys, beh |-> b]
              /\ resp' = response
              /\ comparison_stats' = StatsAfterRequest(comparison_stats, response)
    /\ UNCHANGED <<service, pc, strHash, models, flaskModel, statsComputations>>
    /\ UNCHANGED trainVars
    /\ UNCHANGED toolVars

-----------------------------------------------------------------------------
(* Comparison statistics of one feature column (Flask import block) *)

\* Bounds: a generated column has at most MaxRows records, with values in
\* 1 .. MaxValue.
MaxRows == 3

MaxValue == 3

\* The status column: 'ckd', 'notckd', or any other string.
StatusValues == {"ckd", "notckd", "other"}

Records == [status : StatusValues, value : 1 .. MaxValue]

\* The reference column of the specification's example: 1, 2, 3, 4, 5 in
\* the ckd records, between records of the other partition.
ExampleColumn ==
    <<[status |-> "ckd", value |-> 1], [status |-> "notckd", value |-> 9],
      [status |-> "ckd", value |-> 2], [status |-> "ckd", value |-> 3],
      [status |-> "other", value |-> 7], [status |-> "ckd", value |-> 4],
      [status |-> "ckd", value |-> 5]>>

Columns ==
    UNION {[1 .. n -> Records] : n \in 0 .. MaxRows} \cup {ExampleColumn}

\* float('nan') as a ratio, and Python's None
NaN == <<0, 0>>

None == <<>>

\* float(v) of a stored value
Float(v) == <<v, 1>>

\* Variant that ignores ckd_status: both partitions are the whole column.
PartitionIgnoringStatus(rows, ckd_status) ==
    [i \in 1 .. Len(rows) |-> rows[i].value]

\* dataset[dataset['ckd_status'] == k][feature], where
\* ckd_status = (status == 'ckd').astype(int)
Partition(rows, ckd_status) ==
    LET picked == SelectSeq(rows, LAMBDA r :
                      (IF r.status = "ckd" THEN 1 ELSE 0) = ckd_status)
    IN [i \in 1 .. Len(picked) |-> picked[i].value]

\* values in ascending order
RECURSIVE SortSet(_)
SortSet(S) ==
    IF S = {} THEN <<>>
    ELSE LET least == CHOOSE v \in S : \A w \in S : v <= w
         IN <<least>> \o SortSet(S \ {least})

RECURSIVE SortValues(_)
SortValues(vals) ==
    IF vals = <<>> THEN <<>>
    ELSE LET rest == SortValues(Tail(vals))
             k == Cardinality({i \in 1 .. Len(rest) : rest[i] <= Head(vals)})
         IN SubSeq(rest, 1, k) \o <<Head(vals)>> \o SubSeq(rest, k + 1, Len(rest))

MostFrequent(vals) ==
    {v \in Elems(vals) : \A w \in Elems(vals) : Count(vals, v) >= Count(vals, w)}

\* Variant that lists the most frequent values in order of first appearance.
ModeSeriesByAppearance(vals) ==
    SelectSeq([i \in 1 .. Len(vals) |->
                   IF \E j \in 1 .. i - 1 : vals[j] = vals[i] THEN 0 ELSE vals[i]],
              LAMBDA v : v \in MostFrequent(vals))

\* Series.mode(): the most frequent values, sorted ascending
ModeSeries(vals) == SortSet(MostFrequent(vals))

\* float(mode.iloc[0]) if len(mode) > 0 else None
ModeOf(vals) ==
    LET mode == ModeSeries(vals)
    IN IF Len(mode) > 0 THEN Float(mode[1]) ELSE None

\* Series.mean()
MeanOf(vals) ==
    IF vals = <<>> THEN NaN ELSE <<SeqSum(vals), Len(vals)>>

\* Series.median(): the middle value, or the mean of the two middle values
MedianOf(vals) ==
    LET n == Len(vals)
        s == SortValues(vals)
    IN IF n = 0 THEN NaN
       ELSE IF n % 2 = 1 THEN Float(s[(n + 1) \div 2])
       ELSE <<s[n \div 2] + s[n \div 2 + 1], 2>>

\* Series.std() squared: the sample variance (ddof = 1), the squared
\* deviations from the mean summed and divided by n - 1; NaN below two
\* values.  The ratio is the square of the stored std.
VarianceOf(vals) ==
    LET n == Len(vals)
        total == SeqSum(vals)
    IN IF n < 2 THEN NaN
       ELSE <<SeqSum([i \in 1 .. n |-> (n * vals[i] - total) * (n * vals[i] - total)]),
              n * n * (n - 1)>>

\* Series.min() and Series.max(), NaN on an empty series
MinOf(vals) ==
    IF vals = <<>> THEN NaN
    ELSE Float(CHOOSE v \in Elems(vals) : \A w \in Elems(vals) : v <= w)

MaxOf(vals) ==
    IF vals = <<>> THEN NaN
    ELSE Float(CHOOSE v \in Elems(vals) : \A w \in Elems(vals) : v >= w)

\* the dictionary stored for one partition of one feature
PartitionStats(is_categorical, vals) ==
    IF is_categorical
    THEN [mode |-> ModeOf(vals), mean |-> None, median |-> None,
          std2 |-> None, min |-> MinOf(vals), max |-> MaxOf(vals)]
    ELSE [mean |-> MeanOf(vals), median |-> MedianOf(vals),
          std2 |-> VarianceOf(vals), min |-> MinOf(vals), max |-> MaxOf(vals),
          mode |-> None]

\* comparison_stats[feature]
FeatureStats(feature, rows) ==
    LET is_categorical == feature \in CategoricalFeatures
    IN [ckd |-> PartitionStats(is_categorical, Partition(rows, 1)),
        notckd |-> PartitionStats(is_categorical, Partition(rows, 0))]

\* One pass of the loop body over a feature column of a well-formed dataset.
ComputeFeatureStats ==
    /\ service = "stats" /\ resp = NoResp
    /\ \E feature \in FeatureNames, rows \in Columns :
           /\ req' = [endpoint |-> "stats", rows |-> rows,
                      is_categorical |-> feature \in CategoricalFeatures]
           /\ resp' = [endpoint |-> "stats", status |-> 0, calls |-> 0,
                       stats |-> FeatureStats(feature, rows)]
    /\ UNCHANGED <<service, pc, strHash, models, flaskModel, comparison_stats,
                   statsComputations>>
    /\ UNCHANGED trainVars
    /\ UNCHANGED toolVars

-----------------------------------------------------------------------------
(* Iris service (src/main.py) *)

\* a request carries at most MaxFeatures features
MaxFeatures == 5

\* `len(request.features) != 4`
ExpectedFeatures == 4

class_names == <<"setosa", "versicolor", "virginica">>

\* predict_proba's row: one probability per class, in 1/ConfScale, summing
\* to one
ProbaRows ==
    {p \in [1 .. Len(class_names) -> 0 .. ConfScale] : SeqSum(p) = ConfScale}

\* What the loaded model does for the features of the request: predict or
\* predict_proba raises, or predict returns the class index pred (a model
\* file may hold a classifier with a class beyond class_names) and
\* predict_proba the row proba.
IrisBehaviours ==
    [raises : {"none", "predict", "predict_proba"},
     pred : 0 .. Len(class_names), proba : ProbaRows]

IrisAnswer(status, calls, detail) ==
    [endpoint |-> "iris_predict", status |-> status, calls |-> calls,
     detail |-> detail, prediction |-> 0, confidence |-> 0,
     class_name |-> "none"]

\* Variant that reports the probability of the predicted class.
ConfidenceOfPredicted(b) == b.proba[b.pred + 1]

\* float(max(probabilities))
IrisConfidence(b) ==
    CHOOSE c \in {b.proba[i] : i \in 1 .. Len(class_names)} :
        \A i \in 1 .. Len(class_names) : c >= b.proba[i]

\* The body of the try block: what it raises, or the response it returns.
IrisTry(n, b) ==
    IF n # ExpectedFeatures
    THEN [raised |-> "HTTPException",
          answer |-> IrisAnswer(400, 0, "Expected 4 features")]
    ELSE IF b.raises = "predict"
    THEN [raised |-> "Exception", answer |-> IrisAnswer(500, 1, "error")]
    ELSE IF b.raises = "predict_proba"
    THEN [raised |-> "Exception", answer |-> IrisAnswer(500, 2, "error")]
    ELSE IF b.pred + 1 > Len(class_names)    \* class_names[prediction]
    THEN [raised |-> "Exception", answer |-> IrisAnswer(500, 2, "error")]
    ELSE [raised |-> "none",
          answer |-> [endpoint |-> "iris_predict", status |-> 200, calls |-> 2,
                      detail |-> "none", prediction |-> b.pred,
                      confidence |-> IrisConfidence(b),
                      class_name |-> class_names[b.pred + 1]]]

\* Variant of the except clause without the isinstance test: every
\* exception becomes a 500.
IrisExceptWrapsAll(attempt) ==
    IF attempt.raised = "none" THEN attempt.answer
    ELSE IrisAnswer(500, attempt.answer.calls, "error")

\* `except Exception as e`: an HTTPException is re-raised as it is, anything
\* else becomes a 500
IrisExcept(attempt) ==
    IF attempt.raised = "Exception"
    THEN IrisAnswer(500, attempt.answer.calls, "error")
    ELSE attempt.answer

\* POST /predict of the iris service; a body without a features list is
\* refused by the request model (422) before the handler runs
IrisPredict ==
    /\ service = "iris" /\ resp = NoResp
    /\ \/ /\ req' = [endpoint |-> "iris_predict", hasFeatures |-> FALSE]
          /\ resp' = IrisAnswer(422, 0, "missing")
       \/ \E n \in 0 .. MaxFeatures, b \in IrisBehaviours :
              /\ n # ExpectedFeatures => b = CHOOSE x \in IrisBehaviours : TRUE
              /\ req' = [endpoint |-> "iris_predict", hasFeatures |-> TRUE,
                         n |-> n, beh |-> b]
              /\ resp' = IrisExcept(IrisTry(n, b))
    /\ UNCHANGED <<service, pc, strHash, models, flaskModel, comparison_stats,
                   statsComputations>>
    /\ UNCHANGED trainVars
    /\ UNCHANGED toolVars

-----------------------------------------------------------------------------
(* Training router (src/backend/api/routes/training.py) *)

\* at most MaxTasks background tasks are alive at once in the model
MaxTasks == 2

\* all_models of train_models_background, in the order the function trains
all_models == <<"KNN", "SVM", "GradientBoosting", "HistGradientBoosting">>

\* config.models_to_train of a /train-all body: absent (<<>>, which the code
\* treats as None) or a list of names
ConfigLists ==
    {<<>>, <<"SVM", "KNN">>} \cup {<<m>> : m \in ModelNames}

\* the module-level dictionary as the import leaves it
InitialStatus ==
    [is_training |-> FALSE, current_model |-> "None", progress |-> 0,
     message |-> "Not started", results |-> {}, started_at |-> "None",
     completed_at |-> "None", error |-> "None"]

\* `config.models_to_train if config.models_to_train else all_models`
ModelsToTrain(list) == IF list = <<>> THEN all_models ELSE list

\* list.index(m): the 0-based place of the first m
IndexOf(list, m) ==
    (CHOOSE i \in 1 .. Len(list) :
         list[i] = m /\ \A j \in 1 .. i - 1 : list[j] # m) - 1

\* int((models_to_train.index(m) / total_models) * 100)
ProgressOf(list, m) == (IndexOf(list, m) * 100) \div Len(list)

TrainingMessage(m) ==
    CASE m = "KNN" -> "Training KNN..."
      [] m = "SVM" -> "Training SVM..."
      [] m = "GradientBoosting" -> "Training Gradient Boosting..."
      [] m = "HistGradientBoosting" -> "Training Histogram Gradient Boosting..."

\* Where a task goes after the block of all_models[k] (k = 0: after the
\* start): to the block of the next model that is in its list, or to
\* save_results.
Advance(list, k) ==
    LET later == {i \in k + 1 .. Len(all_models) : all_models[i] \in Elems(list)}
    IN IF later = {} THEN [pc |-> "save", at |-> 0]
       ELSE [pc |-> "begin", at |-> CHOOSE i \in later : \A j \in later : i <= j]

\* The block of all_models[k] is the first of its data group (normalized:
\* KNN, SVM; imputed: the two boosting models) that the task enters, so the
\* group's exists() test and trainer.load_data() run just before it.
LoadsData(list, k) ==
    \/ k \in {1, 3}
    \/ k \in {2, 4} /\ all_models[k - 1] \notin Elems(list)

\* a task that was just scheduled
NewTask(list) == [list |-> list, pc |-> "start", at |-> 0]

Moved(t, to) == [t EXCEPT !.pc = to.pc, !.at = to.at]

Replace(bag, t, u) == (bag (-) SetToBag({t})) (+) SetToBag({u})

\* Variant of the except block that does not stamp completed_at.
StatusAfterFailureUnstamped(st) ==
    [st EXCEPT !.is_training = FALSE, !.error = "exception",
               !.message = "Training failed"]

\* the except block of train_models_background
StatusAfterFailure(st) ==
    [st EXCEPT !.is_training = FALSE, !.error = "exception",
               !.message = "Training failed", !.completed_at = "time"]

TrainingAnswer(endpoint, status) ==
    [endpoint |-> endpoint, status |-> status, calls |-> 0]

TrainingIdle == service = "training" /\ resp = NoResp

\* the state the handlers leave alone
trainingFrame == <<service, pc, strHash, flaskModel, comparison_stats,
                   statsComputations>>

\* POST /train-all
TrainAll ==
    /\ TrainingIdle
    /\ \E list \in ConfigLists, filesExist \in BOOLEAN :
           /\ req' = [endpoint |-> "train-all", list |-> list,
                      filesExist |-> filesExist]
           /\ IF training_status.is_training
              THEN /\ resp' = TrainingAnswer("train-all", 409)
                   /\ UNCHANGED trainVars
              ELSE IF ~filesExist
              THEN /\ resp' = TrainingAnswer("train-all", 404)
                   /\ UNCHANGED trainVars
              ELSE /\ BagCardinality(tasks) < MaxTasks
                   /\ training_status' =
                          [is_training |-> TRUE, current_model |-> "None",
                           progress |-> 0, message |-> "Training started",
                           results |-> {}, started_at |-> "time",
                           completed_at |-> "None", error |-> "None"]
                   /\ tasks' = tasks (+) SetToBag({NewTask(ModelsToTrain(list))})
                   /\ resp' = TrainingAnswer("train-all", 200)
    /\ UNCHANGED models
    /\ UNCHANGED trainingFrame
    /\ UNCHANGED toolVars

\* POST /train-single/{model_name}
TrainSingle ==
    /\ TrainingIdle
    /\ \E model_name \in ModelNames \cup {"Unknown"} :
           /\ req' = [endpoint |-> "train-single", model_name |-> model_name]
           /\ IF model_name \notin Elems(all_models)
              THEN /\ resp' = TrainingAnswer("train-single", 400)
                   /\ UNCHANGED tasks
              ELSE IF training_status.is_training
              THEN /\ resp' = TrainingAnswer("train-single", 409)
                   /\ UNCHANGED tasks
              ELSE /\ BagCardinality(tasks) < MaxTasks
                   /\ tasks' = tasks (+) SetToBag({NewTask(<<model_name>>)})
                   /\ resp' = TrainingAnswer("train-single", 200)
    /\ UNCHANGED <<models, training_status>>
    /\ UNCHANGED trainingFrame
    /\ UNCHANGED toolVars

\* Variant that writes the cancellation into the status before it tests
\* whether a training is in progress.
CancelTrainingWritingFirst ==
    /\ TrainingIdle
    /\ req' = [endpoint |-> "cancel"]
    /\ training_status' =
           [training_status EXCEPT
                !.is_training = FALSE,
                !.message = "Training cancellation requested",
                !.error = "Cancelled by user"]
    /\ resp' = TrainingAnswer("cancel",
                              IF training_status.is_training THEN 200 ELSE 400)
    /\ UNCHANGED <<models, tasks>>
    /\ UNCHANGED trainingFrame
    /\ UNCHANGED toolVars

\* DELETE /cancel
CancelTraining ==
    /\ TrainingIdle
    /\ req' = [endpoint |-> "cancel"]
    /\ IF ~training_status.is_training
       THEN /\ resp' = TrainingAnswer("cancel", 400)
            /\ UNCHANGED training_status
       ELSE /\ training_status' =
                   [training_status EXCEPT
                        !.is_training = FALSE,
                        !.message = "Training cancellation requested",
                        !.error = "Cancelled by user"]
            /\ resp' = TrainingAnswer("cancel", 200)
    /\ UNCHANGED <<models, tasks>>
    /\ UNCHANGED trainingFrame
    /\ UNCHANGED toolVars

\* GET /status
GetTrainingStatus ==
    /\ TrainingIdle
    /\ req' = [endpoint |-> "status"]
    /\ resp' = [endpoint |-> "status", status |-> 200, calls |-> 0,
                body |-> training_status]
    /\ UNCHANGED <<models, training_status, tasks>>
    /\ UNCHANGED trainingFrame
    /\ UNCHANGED toolVars

\* GET /results
GetTrainingResults ==
    /\ TrainingIdle
    /\ req' = [endpoint |-> "results"]
    /\ resp' = IF training_status.results = {}
               THEN [endpoint |-> "results", status |-> 404, calls |-> 0,
                     results |-> {}, completed_at |-> "None",
                     started_at |-> "None"]
               ELSE [endpoint |-> "results", status |-> 200, calls |-> 0,
                     results |-> training_status.results,
                     completed_at |-> training_status.completed_at,
                     started_at |-> training_status.started_at]
    /\ UNCHANGED <<models, training_status, tasks>>
    /\ UNCHANGED trainingFrame
    /\ UNCHANGED toolVars

\* A task raises: the except block runs and the task is over.
TaskFails(t) ==
    /\ training_status' = StatusAfterFailure(training_status)
    /\ tasks' = tasks (-) SetToBag({t})

\* train_models_background, first block: the task marks the run as started.
TaskStart ==
    /\ TrainingIdle
    /\ \E t \in BagToSet(tasks) :
           /\ t.pc = "start"
           /\ training_status' =
                  [training_status EXCEPT
                       !.is_training = TRUE, !.started_at = "time",
                       !.completed_at = "None", !.error = "None",
                       !.results = {}]
           /\ tasks' = Replace(tasks, t, Moved(t, Advance(t.list, 0)))
    /\ UNCHANGED <<models, req, resp>>
    /\ UNCHANGED trainingFrame
    /\ UNCHANGED toolVars

\* The task enters the block of a model of its list (after the data of the
\* model's group has been found and loaded, which may raise) and announces
\* it in the status.
TaskBeginModel ==
    /\ TrainingIdle
    /\ \E t \in BagToSet(tasks) :
           /\ t.pc = "begin"
           /\ \/ /\ LoadsData(t.list, t.at)
                 /\ TaskFails(t)
              \/ /\ training_status' =
                        [training_status EXCEPT
                             !.current_model = all_models[t.at],
                             !.message = TrainingMessage(all_models[t.at]),
                             !.progress = ProgressOf(t.list, all_models[t.at])]
                 /\ tasks' = Replace(tasks, t, [t EXCEPT !.pc = "train"])
    /\ UNCHANGED <<models, req, resp>>
    /\ UNCHANGED trainingFrame
    /\ UNCHANGED toolVars

\* trainer.train_<model>() returns and its metrics are stored, or it raises.
TaskTrainModel ==
    /\ TrainingIdle
    /\ \E t \in BagToSet(tasks) :
           /\ t.pc = "train"
           /\ \/ TaskFails(t)
              \/ /\ training_status' =
                        [training_status EXCEPT
                             !.results = @ \cup {all_models[t.at]}]
                 /\ tasks' = Replace(tasks, t, Moved(t, Advance(t.list, t.at)))
    /\ UNCHANGED <<models, req, resp>>
    /\ UNCHANGED trainingFrame
    /\ UNCHANGED toolVars

\* trainer.save_results() returns and the status is set to completed, or
\* it raises.
TaskSaveResults ==
    /\ TrainingIdle
    /\ \E t \in BagToSet(tasks) :
           /\ t.pc = "save"
           /\ \/ TaskFails(t)
              \/ /\ training_status' =
                        [training_status EXCEPT
                             !.is_training = FALSE,
                             !.current_model = "None",
                             !.progress = 100,
                             !.message = "Training completed successfully",
                             !.completed_at = "time",
                             !.results = @ \cup {"summary"}]
                 /\ tasks' = Replace(tasks, t, [t EXCEPT !.pc = "reload"])
    /\ UNCHANGED <<models, req, resp>>
    /\ UNCHANGED trainingFrame
    /\ UNCHANGED toolVars

\* the model directory when a finished task reloads: every file is there,
\* or none is
TrainedFiles ==
    {[m \in ModelNames |-> "ok"], [m \in ModelNames |-> "absent"]}

\* load_models() of the prediction router, in its own try/except; the task
\* is over.
TaskReload ==
    /\ TrainingIdle
    /\ \E t \in BagToSet(tasks) :
           /\ t.pc = "reload"
           /\ \E fs \in TrainedFiles : models' = load_models(models, fs).models
           /\ tasks' = tasks (-) SetToBag({t})
    /\ UNCHANGED <<training_status, req, resp>>
    /\ UNCHANGED trainingFrame
    /\ UNCHANGED toolVars

-----------------------------------------------------------------------------
(* ModelTrainer (src/model_training.py) *)

\* two trainer objects constructed with the same model_dir
Trainers == {"model_trainer", "new_trainer"}

Filenames == {"model.pkl", "test_model.pkl"}

\* what self.model can hold: None, a fitted forest, or the estimator that
\* train_model constructed and whose fit raised
FittedModels == {"forest_a", "forest_b"}

TrainerModels == FittedModels \cup {"unfitted", "None"}

\* a path of model_dir with no file
NoFile == <<>>

\* joblib.dump and joblib.load: the file holds the pickle of the object
Dump(model) == <<"pickle", model>>

Load(content) == content[2]

ToolAnswer(endpoint, raised, returned) ==
    [endpoint |-> endpoint, status |-> 0, calls |-> 0, raised |-> raised,
     returned |-> returned]

\* train_model: the constructor rejects model_params, or the estimator is
\* stored and fit raises, or fit returns
train_model(model, outcome, forest) ==
    CASE outcome = "params_rejected" -> [raised |-> "Exception", model |-> model]
      [] outcome = "fit_raises" -> [raised |-> "Exception", model |-> "unfitted"]
      [] outcome = "fitted" -> [raised |-> "none", model |-> forest]

\* Variant without the `self.model is None` test: None is pickled too.
SaveModelUnguarded(model, files, filename) ==
    [raised |-> "none", files |-> [files EXCEPT ![filename] = Dump(model)]]

\* save_model(filename)
save_model(model, files, filename) ==
    IF model = "None" THEN [raised |-> "ValueError", files |-> files]
    ELSE [raised |-> "none", files |-> [files EXCEPT ![filename] = Dump(model)]]

\* load_model(filename)
load_model(model, files, filename) ==
    IF files[filename] = NoFile
    THEN [raised |-> "FileNotFoundError", model |-> model]
    ELSE [raised |-> "none", model |-> Load(files[filename])]

ToolIdle == service = "trainer" /\ resp = NoResp

toolFrame == <<service, pc, strHash, models, flaskModel, comparison_stats,
               statsComputations>>

TrainModel ==
    /\ ToolIdle
    /\ \E t \in Trainers, forest \in FittedModels,
          outcome \in {"params_rejected", "fit_raises", "fitted"} :
           LET got == train_model(trainer_model[t], outcome, forest)
           IN /\ trainer_model' = [trainer_model EXCEPT ![t] = got.model]
              /\ req' = [endpoint |-> "train_model", trainer |-> t]
              /\ resp' = ToolAnswer("train_model", got.raised, got.model)
    /\ UNCHANGED model_files
    /\ UNCHANGED toolFrame
    /\ UNCHANGED trainVars

SaveModel ==
    /\ ToolIdle
    /\ \E t \in Trainers, filename \in Filenames :
           LET got == save_model(trainer_model[t], model_files, filename)
           IN /\ model_files' = got.files
              /\ req' = [endpoint |-> "save_model", trainer |-> t,
                         filename |-> filename]
              /\ resp' = ToolAnswer("save_model", got.raised, "filepath")
    /\ UNCHANGED trainer_model
    /\ UNCHANGED toolFrame
    /\ UNCHANGED trainVars

LoadModel ==
    /\ ToolIdle
    /\ \E t \in Trainers, filename \in Filenames :
           LET got == load_model(trainer_model[t], model_files, filename)
           IN /\ trainer_model' = [trainer_model EXCEPT ![t] = got.model]
              /\ req' = [endpoint |-> "load_model", trainer |-> t,
                         filename |-> filename]
              /\ resp' = ToolAnswer("load_model", got.raised, got.model)
    /\ UNCHANGED model_files
    /\ UNCHANGED toolFrame
    /\ UNCHANGED trainVars

-----------------------------------------------------------------------------
(* FeatureEngineer.select_k_best_features (src/feature_engineering.py) *)

\* X has at most MaxColumns columns
MaxColumns == 3

\* the F-scores of the columns of X, up to their order: ties included
ScoreRows(n) == [1 .. n -> 1 .. n]

\* np.argsort(scores, kind="mergesort"): the place of column i in the
\* stable ascending order
SortedPlace(scores, i) ==
    Cardinality({j \in DOMAIN scores :
                     scores[j] < scores[i] \/ (scores[j] = scores[i] /\ j < i)}) + 1

\* Variant that keeps every column whose score reaches the k-th best score.
SupportMaskWithTies(scores, k) ==
    [i \in DOMAIN scores |->
         Cardinality({j \in DOMAIN scores : scores[j] > scores[i]}) < k]

\* SelectKBest.get_support(): the last k columns of the stable order
SupportMask(scores, k) ==
    [i \in DOMAIN scores |-> SortedPlace(scores, i) > Len(scores) - k]

\* X.columns[selected_mask].tolist(): the selected columns in the order of X
MaskedColumns(mask) ==
    SelectSeq([i \in DOMAIN mask |-> i], LAMBDA i : mask[i])

\* select_k_best_features(X, y, k) on a frame of n columns; SelectKBest
\* refuses a negative k and a frame without columns, and fit can raise on
\* the data.  columns are the columns of the returned frame,
\* selected_features the attribute after the call (unset: "None").
select_k_best_features(n, scores, k, fits) ==
    LET kept == IF k < n THEN k ELSE n
    IN IF kept < 0 \/ n = 0 \/ ~fits
       THEN [endpoint |-> "select_k_best", status |-> 0, calls |-> 0,
             raised |-> TRUE, columns |-> <<>>, selected_features |-> "None"]
       ELSE [endpoint |-> "select_k_best", status |-> 0, calls |-> 0,
             raised |-> FALSE,
             columns |-> MaskedColumns(SupportMask(scores, kept)),
             selected_features |-> MaskedColumns(SupportMask(scores, kept))]

\* a call on a fresh FeatureEngineer
SelectKBestFeatures ==
    /\ service = "features" /\ resp = NoResp
    /\ \E n \in 0 .. MaxColumns, k \in -1 .. MaxColumns + 1, fits \in BOOLEAN :
       \E scores \in ScoreRows(n) :
           /\ req' = [endpoint |-> "select_k_best", n |-> n, k |-> k,
                      scores |-> scores, fits |-> fits]
           /\ resp' = select_k_best_features(n, scores, k, fits)
    /\ UNCHANGED toolFrame
    /\ UNCHANGED trainVars
    /\ UNCHANGED toolVars

-----------------------------------------------------------------------------
(* The process *)

Init ==
    /\ service \in {"flask", "fastapi", "stats", "iris", "trainer", "features"}
    /\ pc = "boot"
    /\ strHash \in [Labels -> Slots]
    /\ service # "fastapi" => strHash = [l \in Labels |-> 0]
    /\ models = <<>>
    /\ flaskModel = "None"
    /\ comparison_stats = [isNone |-> TRUE, features |-> {}]
    /\ statsComputations = 0
    /\ req = NoReq
    /\ resp = NoResp
    /\ training_status = InitialStatus
    /\ tasks = EmptyBag
    /\ trainer_model = [t \in Trainers |-> "None"]
    /\ model_files = [f \in Filenames |-> NoFile]

Next ==
    \/ FastApiStartup
    \/ ReloadModels
    \/ Predict
    \/ PredictEnsemble
    \/ FlaskStartup
    \/ FlaskPredict
    \/ ComputeFeatureStats
    \/ IrisPredict
    \/ TrainModel
    \/ SaveModel
    \/ LoadModel
    \/ SelectKBestFeatures
    \/ ReadinessCheck
    \/ Deliver

Spec == Init /\ [][Next]_vars

\* The process that serves the training router: the request handlers on
\* the event loop and the background tasks in the thread pool.
InitTraining ==
    /\ service = "training"
    /\ pc = "serving"
    /\ strHash = [l \in Labels |-> 0]
    /\ models = <<>>
    /\ flaskModel = "None"
    /\ comparison_stats = [isNone |-> TRUE, features |-> {}]
    /\ statsComputations = 0
    /\ req = NoReq
    /\ resp = NoResp
    /\ training_status = InitialStatus
    /\ tasks = EmptyBag
    /\ trainer_model = [t \in Trainers |-> "None"]
    /\ model_files = [f \in Filenames |-> NoFile]

NextTraining ==
    \/ TrainAll
    \/ TrainSingle
    \/ CancelTraining
    \/ GetTrainingStatus
    \/ GetTrainingResults
    \/ TaskStart
    \/ TaskBeginModel
    \/ TaskTrainModel
    \/ TaskSaveResults
    \/ TaskReload
    \/ Deliver

SpecTraining == InitTraining /\ [][NextTraining]_vars

\* a step of train_models_background, by any task
TaskSteps ==
    \/ TaskStart
    \/ TaskBeginModel
    \/ TaskTrainModel
    \/ TaskSaveResults
    \/ TaskReload

\* The training router when every answer is sent and the background tasks
\* keep running: Starlette runs a task in a worker thread whatever requests
\* arrive meanwhile, and each call the task makes returns or raises.  Tasks
\* are scheduled by /train-all, whose lists include every single model, and
\* a cancelled run lets a second task start beside the first.
NextTrainingRun ==
    \/ TrainAll
    \/ CancelTraining
    \/ TaskSteps
    \/ Deliver

FairTraining ==
    /\ WF_vars(Deliver)
    /\ SF_vars(TaskSteps)

SpecTrainingRun == InitTraining /\ [][NextTrainingRun]_vars /\ FairTraining

\* The FastAPI process with every prediction endpoint of the router.
InitPrediction == Init /\ service = "fastapi"

NextPrediction ==
    \/ FastApiStartup
    \/ ReloadModels
    \/ Predict
    \/ PredictEnsemble
    \/ PredictBatch
    \/ PredictExample
    \/ Deliver

SpecPrediction == InitPrediction /\ [][NextPrediction]_vars

-----------------------------------------------------------------------------
(* Properties *)

EnsembleAnswered == resp.endpoint = "ensemble" /\ resp.status = 200

EnsembleAsked == req.endpoint = "ensemble" /\ ValidPatient(req.keys)

Votes == PredictionsList(resp.individual_predictions)

\* the label of the earliest vote whose label has the largest vote count
FirstMostVoted(list) ==
    LET i == CHOOSE k \in 1 .. Len(list) :
                 /\ \A j \in 1 .. Len(list) : Count(list, list[j]) <= Count(list, list[k])
                 /\ \A j \in 1 .. k - 1 : Count(list, list[j]) < Count(list, list[k])
    IN list[i]

TiedVote(list) ==
    \E a, b \in Elems(list) :
        /\ a # b
        /\ Count(list, a) = Count(list, b)
        /\ \A c \in Elems(list) : Count(list, c) <= Count(list, a)

VoteOrders(n) ==
    {f \in [1 .. n -> 1 .. n] : \A i, j \in 1 .. n : f[i] = f[j] => i = j}

Permute(list, f) == [i \in 1 .. Len(list) |-> list[f[i]]]

\* C1: when two labels share the highest vote count, the consensus of an
\* ensemble answer is the label that comes first among the individual
\* predictions in the registry's order (with no tie this is the majority).
C1_TieBreakFirstEncountered ==
    EnsembleAnswered => resp.consensus.prediction = FirstMostVoted(Votes)

\* C2: in every ensemble answer the agreement ratio is in (0, 1] and the
\* average model confidence is in [0, 1].
C2_RatiosInRange ==
    EnsembleAnswered =>
        LET agreement == resp.consensus.consensus_confidence
            average == resp.consensus.average_model_confidence
        IN /\ agreement[2] > 0 /\ agreement[1] > 0
           /\ agreement[1] <= agreement[2]
           /\ average[2] > 0 /\ average[1] >= 0
           /\ average[1] <= average[2]

C2_Witness ==
    /\ EnsembleAnswered
    /\ resp.consensus.consensus_confidence[1] < resp.consensus.consensus_confidence[2]
    /\ resp.consensus.average_model_confidence[1] > 0
    /\ resp.consensus.average_model_confidence[1]
           < resp.consensus.average_model_confidence[2]

\* C3: if all individual predictions share one label (one classifier
\* included), unanimous is true and the agreement ratio is 1; and unanimous
\* is true only if every model predicted the consensus label.
C3_Unanimity ==
    EnsembleAnswered =>
        /\ (\A i, j \in 1 .. Len(Votes) : Votes[i] = Votes[j]) =>
               /\ resp.consensus.unanimous
               /\ resp.consensus.consensus_confidence[1]
                      = resp.consensus.consensus_confidence[2]
        /\ resp.consensus.unanimous =>
               \A i \in 1 .. Len(Votes) : Votes[i] = resp.consensus.prediction

C3_Witness ==
    /\ EnsembleAnswered
    /\ Len(Votes) >= 2
    /\ resp.consensus.unanimous

\* C4: an ensemble call made with an empty registry is answered with the
\* error 503 and no consensus; the voting code, which divides by the number
\* of votes, is not entered.
C4_EmptyRegistryFails ==
    (req.endpoint = "ensemble" /\ models = <<>>) =>
        /\ resp.status # 200
        /\ resp.calls = 0
        /\ ValidPatient(req.keys) =>
               /\ resp.status = 503
               /\ resp.individual_predictions = <<>>
               /\ resp.consensus = NoConsensus

C4_Witness == EnsembleAsked /\ models = <<>> /\ resp.status = 503

RequestLacksFeature ==
    /\ req.endpoint \in {"predict", "ensemble", "flask_predict"}
    /\ FeatureNames \ req.keys # {}

\* C5 as stated: a request that lacks a required feature is answered 400 and
\* no classifier is called.
C5_MissingFeatureIs400 ==
    RequestLacksFeature => resp.status = 400 /\ resp.calls = 0

\* C5 amended: a request that lacks a required feature is never answered
\* with a prediction and no classifier is called for it: Flask answers 400
\* when its model is loaded and 500 "Model not loaded" when it is not, the
\* FastAPI endpoints answer 422.
C5_MissingFeatureRejected ==
    RequestLacksFeature =>
        /\ resp.calls = 0
        /\ req.endpoint = "flask_predict" /\ flaskModel = "loaded" =>
               resp.status = 400
        /\ req.endpoint = "flask_predict" /\ flaskModel = "None" =>
               resp.status = 500 /\ resp.error = "Model not loaded"
        /\ req.endpoint \in {"predict", "ensemble"} => resp.status = 422

C5_Witness ==
    /\ RequestLacksFeature
    /\ req.endpoint = "flask_predict"
    /\ flaskModel = "loaded"
    /\ ~req.beh.fails
    /\ resp.status = 400

\* C6 as stated: every permutation of the individual predictions gives the
\* same consensus (label, agreement ratio, average confidence, unanimous).
C6_OrderIndependent ==
    EnsembleAnswered =>
        \A f \in VoteOrders(Len(resp.individual_predictions)) :
            ComputeConsensus(Permute(resp.individual_predictions, f))
                = resp.consensus

\* C6 amended: every permutation of the individual predictions gives the
\* same agreement ratio, the same (exact) average confidence and the same
\* unanimous flag, and the same consensus label unless two labels tie for
\* the highest vote count.
C6_OrderIndependentUpToTies ==
    EnsembleAnswered =>
        \A f \in VoteOrders(Len(resp.individual_predictions)) :
            LET other == ComputeConsensus(Permute(resp.individual_predictions, f))
            IN /\ other.consensus_confidence = resp.consensus.consensus_confidence
               /\ other.average_model_confidence
                      = resp.consensus.average_model_confidence
               /\ other.unanimous = resp.consensus.unanimous
               /\ ~TiedVote(Votes) => other.prediction = resp.consensus.prediction

C6_Witness ==
    /\ EnsembleAnswered
    /\ Len(Votes) >= 3
    /\ ~TiedVote(Votes)
    /\ Votes[1] # resp.consensus.prediction

RECURSIVE ConfidenceTotal(_, _)
ConfidenceTotal(preds, n) ==
    IF n = 0 THEN 0 ELSE preds[n].confidence + ConfidenceTotal(preds, n - 1)

\* C7: average_model_confidence is the sum of the confidences of all the
\* individual predictions divided by their number, dissenting models
\* included.
C7_AverageOverAllModels ==
    EnsembleAnswered =>
        LET preds == resp.individual_predictions
            average == resp.consensus.average_model_confidence
        IN average[1] * Len(preds) * ConfScale
               = ConfidenceTotal(preds, Len(preds)) * average[2]

C7_Witness ==
    /\ EnsembleAnswered
    /\ \E i, j \in 1 .. Len(Votes) :
           /\ Votes[i] = resp.consensus.prediction
           /\ Votes[j] # resp.consensus.prediction
           /\ resp.individual_predictions[i].confidence
                  # resp.individual_predictions[j].confidence

\* C8: if a classifier of the registry fails on the patient of an ensemble
\* call, the call is answered with an error and carries no consensus and no
\* individual predictions.
C8_ClassifierFailureAborts ==
    (EnsembleAsked /\ \E n \in Elems(models) : req.beh[n].fails) =>
        /\ resp.status = 500
        /\ resp.individual_predictions = <<>>
        /\ resp.consensus = NoConsensus

C8_Witness ==
    /\ EnsembleAsked
    /\ req.mlflowUp
    /\ Len(models) >= 3
    /\ ~req.beh[models[1]].fails
    /\ req.beh[models[2]].fails
    /\ resp.status = 500

\* C9: the statistics block runs once, at import; once the Flask service
\* serves, no step (a request that succeeds or fails included) changes
\* comparison_stats.
C9_StatsComputedOnce ==
    /\ [](service = "flask" /\ pc = "serving" => statsComputations = 1)
    /\ [][pc = "serving" =>
              /\ comparison_stats' = comparison_stats
              /\ statsComputations' = statsComputations]_vars

C9_Witness ==
    /\ resp.endpoint = "flask_predict"
    /\ resp.status = 500
    /\ req.beh.fails
    /\ ~comparison_stats.isNone
    /\ comparison_stats.features # {}

\* C10: a Flask request with all nine features, a loaded model and a
\* classifier that answers is answered 200 with class and confidence
\* whatever the statistics are; comparison_data holds exactly the features
\* that have a statistic (none when the statistics are None).
C10_StatsUnavailableDegrades ==
    (/\ req.endpoint = "flask_predict"
     /\ FeatureNames \subseteq req.keys
     /\ flaskModel = "loaded"
     /\ ~req.beh.fails /\ req.beh.hasProba) =>
        /\ resp.status = 200
        /\ resp.class = req.beh.pred
        /\ resp.confidence = ConfidenceOf(req.beh)
        /\ DOMAIN resp.comparison_data
               = IF comparison_stats.isNone THEN {} ELSE comparison_stats.features

C10_Witness ==
    /\ req.endpoint = "flask_predict"
    /\ resp.status = 200
    /\ comparison_stats.isNone

\* C11: a well-formed prediction request that finds no classifier loaded
\* (Flask: model is None; FastAPI: the registry is empty) is answered 503
\* service-unavailable, not 404 and not 500.
C11_NoModelIsUnavailable ==
    /\ (req.endpoint = "flask_predict" /\ flaskModel = "None") =>
           resp.status = 503
    /\ (/\ req.endpoint \in {"predict", "ensemble"}
        /\ ValidPatient(req.keys)
        /\ models = <<>>) =>
           resp.status = 503

StatsAnswered == req.endpoint = "stats" /\ resp.endpoint = "stats"

\* the records of the column whose status is 'ckd' (k) or is not (~k)
PartitionRecords(k) ==
    {i \in 1 .. Len(req.rows) : (req.rows[i].status = "ckd") = k}

StoredFor(k) == IF k THEN resp.stats.ckd ELSE resp.stats.notckd

ValueAt(i) == req.rows[i].value

Frequency(I, v) == Cardinality({i \in I : ValueAt(i) = v})

\* the records of I that carry a most frequent value of I
TopRecords(I) ==
    {i \in I : \A j \in I :
         Frequency(I, ValueAt(i)) >= Frequency(I, ValueAt(j))}

RECURSIVE SumOver(_, _)
SumOver(I, f) ==
    IF I = {} THEN 0
    ELSE LET i == CHOOSE j \in I : TRUE
         IN f[i] + SumOver(I \ {i}, f)

\* C12 as stated: for a categorical feature the stored mode of a non-empty
\* partition is the most frequent value whose first record comes earliest
\* in the dataset.
C12_ModeTieFirstInRecordOrder ==
    (StatsAnswered /\ req.is_categorical) =>
        \A k \in BOOLEAN :
            LET I == PartitionRecords(k)
            IN I # {} =>
                   \E i \in TopRecords(I) :
                       /\ \A j \in TopRecords(I) : i <= j
                       /\ StoredFor(k).mode = <<ValueAt(i), 1>>

\* C12 amended: for a categorical feature the stored mode of a non-empty
\* partition is a most frequent value of that partition, and among tied
\* values the smallest one; an empty partition stores None.
C12_ModeTieSmallest ==
    (StatsAnswered /\ req.is_categorical) =>
        \A k \in BOOLEAN :
            LET I == PartitionRecords(k)
            IN /\ I = {} => StoredFor(k).mode = <<>>
               /\ I # {} =>
                   \E i \in TopRecords(I) :
                       /\ \A j \in TopRecords(I) : ValueAt(i) <= ValueAt(j)
                       /\ StoredFor(k).mode = <<ValueAt(i), 1>>

\* a tie in the ckd partition whose first record carries the larger value
C12_Witness ==
    /\ StatsAnswered /\ req.is_categorical
    /\ LET I == PartitionRecords(TRUE)
       IN /\ \E i, j \in TopRecords(I) :
                 /\ \A l \in TopRecords(I) : i <= l
                 /\ ValueAt(j) < ValueAt(i)
          /\ \E j \in I : StoredFor(TRUE).mode = <<ValueAt(j), 1>>

\* a ratio <<a, b>> compared with the value of record i
Below(i, ratio) == ValueAt(i) * ratio[2] < ratio[1]

Above(i, ratio) == ValueAt(i) * ratio[2] > ratio[1]

\* C13: for a continuous feature the statistics stored for a partition are
\* those of exactly the records of that partition (status = 'ckd' against
\* every other status): the mean is their sum over their number, the median
\* has at most half of them on either side and is one of them (odd number)
\* or the mean of two of them (even number), std squared is their sample
\* variance, min and max are their least and greatest value; for the values
\* 1, 2, 3, 4, 5 this gives mean 3, median 3, min 1, max 5, std 1.58 to two
\* decimals.
C13_ContinuousStatsOfPartition ==
    (StatsAnswered /\ ~req.is_categorical) =>
        \A k \in BOOLEAN :
            LET I == PartitionRecords(k)
                n == Cardinality(I)
                total == SumOver(I, [i \in I |-> ValueAt(i)])
                squares == SumOver(I, [i \in I |-> ValueAt(i) * ValueAt(i)])
                st == StoredFor(k)
            IN /\ st.mode = <<>>
               /\ n = 0 => /\ st.mean = <<0, 0>> /\ st.median = <<0, 0>>
                           /\ st.min = <<0, 0>> /\ st.max = <<0, 0>>
               /\ n < 2 => st.std2 = <<0, 0>>
               /\ n > 0 =>
                   /\ st.mean = <<total, n>>
                   /\ \E i \in I : /\ st.min = <<ValueAt(i), 1>>
                                   /\ \A j \in I : ValueAt(i) <= ValueAt(j)
                   /\ \E i \in I : /\ st.max = <<ValueAt(i), 1>>
                                   /\ \A j \in I : ValueAt(i) >= ValueAt(j)
                   /\ st.median[2] > 0
                   /\ 2 * Cardinality({i \in I : Below(i, st.median)}) <= n
                   /\ 2 * Cardinality({i \in I : Above(i, st.median)}) <= n
                   /\ n % 2 = 1 =>
                          \E i \in I : ValueAt(i) * st.median[2] = st.median[1]
                   /\ n % 2 = 0 =>
                          \E i, j \in I :
                              /\ i # j
                              /\ (ValueAt(i) + ValueAt(j)) * st.median[2]
                                     = 2 * st.median[1]
               /\ n >= 2 =>
                   /\ st.std2[2] > 0
                   /\ st.std2[1] * n * (n - 1)
                          = st.std2[2] * (n * squares - total * total)
               /\ (k /\ req.rows = ExampleColumn) =>
                   /\ st.mean[1] = 3 * st.mean[2]
                   /\ st.median[1] = 3 * st.median[2]
                   /\ st.min = <<1, 1>>
                   /\ st.max = <<5, 1>>
                   \* 1.575 <= std < 1.585, squared
                   /\ 1000000 * st.std2[1] >= 2480625 * st.std2[2]
                   /\ 1000000 * st.std2[1] < 2512225 * st.std2[2]

\* the statistics of the example column have been computed
C13_Witness ==
    /\ StatsAnswered /\ ~req.is_categorical
    /\ req.rows = ExampleColumn
    /\ resp.stats.ckd.mean = <<15, 5>>
    /\ resp.stats.notckd.mean = <<16, 2>>

PredictionEndpoints == {"predict", "batch", "ensemble", "example"}

\* C14: a step that answers a prediction request (predict, predict/batch,
\* predict/ensemble, predict/example), whatever the answer, leaves the
\* registry as it was (same keys, same order, same objects) and writes no
\* other state of the process; only the request and its answer change.
C14_PredictionsLeaveRegistry ==
    [][(resp = NoResp /\ resp' # NoResp /\ req'.endpoint \in PredictionEndpoints)
           => /\ models' = models
              /\ UNCHANGED <<pc, strHash, training_status, tasks>>]_vars

\* a prediction that failed on a non-empty registry has been answered
C14_Witness ==
    /\ req.endpoint \in {"batch", "example"}
    /\ resp.status = 500
    /\ resp.calls > 0
    /\ Len(models) > 1

\* C15: at most one accepted training task is unfinished at any time: a
\* train-all or train-single request that arrives while an earlier accepted
\* task has not finished is refused, so no second task is ever scheduled
\* beside it.
C15_OneTrainingTask == BagCardinality(tasks) <= 1

\* a task of the bag enters the training of a model in this step
BeginsTraining ==
    \E t \in BagToSet(tasks') :
        t.pc = "train" /\ CopiesIn(t, tasks') > CopiesIn(t, tasks)

\* a task of the bag runs its load_models() in this step
ReloadsModels ==
    \E t \in BagToSet(tasks) :
        t.pc = "reload" /\ CopiesIn(t, tasks') < CopiesIn(t, tasks)

\* C16: while the status records a cancellation (error is 'Cancelled by
\* user': cancel succeeded and no run has been started since), no
\* background task goes on to train a further model and none reloads the
\* models of the prediction service.
C16_CancelledTaskStops ==
    [][training_status.error = "Cancelled by user"
           => ~(BeginsTraining \/ ReloadsModels)]_vars

\* C17: results answered by GET /results (status 200) belong to a completed
\* session: completed_at is set and the results carry the summary that the
\* end of a run writes.
C17_ResultsOfCompletedSession ==
    (resp.endpoint = "results" /\ resp.status = 200) =>
        /\ resp.completed_at # "None"
        /\ "summary" \in resp.results

\* C18: the terminal outcomes exclude each other: whenever the message is
\* 'Training completed successfully' the error field is null, so a run whose
\* cancellation was recorded never reports success.
C18_CompletedHasNoError ==
    training_status.message = "Training completed successfully" =>
        training_status.error = "None"

IrisAsked == req.endpoint = "iris_predict" /\ req.hasFeatures

\* C19: an iris /predict request whose features list does not have exactly
\* four elements is answered 400 with the detail 'Expected 4 features' (the
\* handler's own except clause does not turn it into a 500) and neither
\* predict nor predict_proba is called.
C19_WrongFeatureCountIs400 ==
    (IrisAsked /\ req.n # 4) =>
        /\ resp.status = 400
        /\ resp.detail = "Expected 4 features"
        /\ resp.calls = 0

C19_Witness ==
    /\ IrisAsked /\ req.n = 2
    /\ resp.endpoint = "iris_predict"
    /\ resp.status = 400

\* C20: a successful iris /predict answer has prediction in {0, 1, 2},
\* class_name the name at that index of [setosa, versicolor, virginica], and
\* confidence the largest of the class probabilities, within [0, 1].
C20_IrisAnswerConsistent ==
    (resp.endpoint = "iris_predict" /\ resp.status = 200) =>
        /\ resp.prediction \in {0, 1, 2}
        /\ resp.prediction = req.beh.pred
        /\ resp.class_name = (CASE resp.prediction = 0 -> "setosa"
                                [] resp.prediction = 1 -> "versicolor"
                                [] resp.prediction = 2 -> "virginica")
        /\ \E i \in 1 .. 3 : resp.confidence = req.beh.proba[i]
        /\ \A i \in 1 .. 3 : resp.confidence >= req.beh.proba[i]
        /\ resp.confidence >= 0 /\ resp.confidence <= ConfScale

\* a success whose predicted class is not the most probable one
C20_Witness ==
    /\ resp.endpoint = "iris_predict" /\ resp.status = 200
    /\ resp.prediction = 2
    /\ req.beh.proba[3] < resp.confidence

\* what the classifier of behaviour b gives the class it predicted
PredictedClassProbability(b) ==
    IF b.pred = 1 THEN b.p1 ELSE ConfScale - b.p1

\* a FastAPI prediction record p agrees with the classifier behaviour b
AgreesWith(p, b) ==
    /\ p.prediction_numeric = b.pred
    /\ (p.prediction = "ckd") <=> (p.prediction_numeric = 1)
    /\ p.prediction \in {"ckd", "notckd"}
    /\ b.hasProba => p.confidence = PredictedClassProbability(b)
    /\ ~b.hasProba => p.confidence = ConfScale
    /\ p.confidence >= 0 /\ p.confidence <= ConfScale

\* C21: in every successful prediction answer (FastAPI /predict, each
\* individual prediction of /predict/ensemble, Flask /predict) the label is
\* 'ckd' / 'CKD' exactly when the numeric class is 1, the confidence is the
\* probability of the predicted class when the classifier has predict_proba
\* and 1.0 otherwise, and it lies in [0, 1].
C21_LabelClassConfidenceAgree ==
    /\ (resp.endpoint = "predict" /\ resp.status = 200) =>
           AgreesWith(resp, req.beh)
    /\ EnsembleAnswered =>
           \A i \in 1 .. Len(resp.individual_predictions) :
               AgreesWith(resp.individual_predictions[i], req.beh[models[i]])
    /\ (resp.endpoint = "flask_predict" /\ resp.status = 200) =>
           /\ resp.class = req.beh.pred
           /\ (resp.prediction_text = "CKD") <=> (resp.class = 1)
           /\ resp.prediction_text \in {"CKD", "NO CKD"}
           /\ resp.confidence = PredictedClassProbability(req.beh)
           /\ resp.confidence >= 0 /\ resp.confidence <= ConfScale

\* a negative prediction from a classifier with probabilities, and one from
\* a classifier without
C21_Witness ==
    /\ resp.endpoint = "predict" /\ resp.status = 200
    /\ resp.prediction = "notckd"
    /\ \/ req.beh.hasProba /\ resp.confidence = ConfScale - req.beh.p1
       \/ ~req.beh.hasProba /\ resp.confidence = ConfScale

\* a call of a ModelTrainer method is answered in this step
ToolCall(endpoint) ==
    resp = NoResp /\ resp' # NoResp /\ req'.endpoint = endpoint

\* C22: save_model succeeds only for a trainer whose model is set (it
\* raises ValueError and leaves the files alone otherwise) and then the file
\* holds that model; the files change in no other way; load_model of a file
\* that exists succeeds for either trainer of the model_dir and sets its
\* model to the model the file holds, and load_model of a file that does not
\* exist raises FileNotFoundError and leaves the trainer's model unchanged.
C22_SaveLoadRoundTrip ==
    [][/\ ToolCall("save_model") =>
              LET was == trainer_model[req'.trainer]
              IN /\ was = "None" =>
                        /\ resp'.raised = "ValueError"
                        /\ model_files' = model_files
                 /\ was # "None" =>
                        /\ resp'.raised = "none"
                        /\ model_files'[req'.filename] = <<"pickle", was>>
                        /\ \A f \in Filenames \ {req'.filename} :
                               model_files'[f] = model_files[f]
       /\ model_files' # model_files => ToolCall("save_model")
       /\ ToolCall("load_model") =>
              LET content == model_files[req'.filename]
              IN /\ content = <<>> =>
                        /\ resp'.raised = "FileNotFoundError"
                        /\ trainer_model' = trainer_model
                 /\ content # <<>> =>
                        /\ resp'.raised = "none"
                        /\ trainer_model'[req'.trainer] = content[2]
                        /\ resp'.returned = content[2]
      ]_vars

\* new_trainer has loaded the file that model_trainer saved
C22_Witness ==
    /\ req.endpoint = "load_model" /\ req.trainer = "new_trainer"
    /\ req.filename = "test_model.pkl"
    /\ resp.raised = "none"
    /\ trainer_model["new_trainer"] = "forest_b"
    /\ trainer_model["model_trainer"] = "forest_b"
    /\ model_files["model.pkl"] = <<>>

\* C23: when select_k_best_features(X, y, k) returns, the frame has exactly
\* min(k, number of columns of X) columns, each a different column of X, and
\* selected_features holds exactly those column names.
C23_SelectsMinKColumns ==
    (req.endpoint = "select_k_best" /\ ~resp.raised) =>
        /\ Len(resp.columns) = (IF req.k < req.n THEN req.k ELSE req.n)
        /\ \A i \in 1 .. Len(resp.columns) : resp.columns[i] \in 1 .. req.n
        /\ \A i, j \in 1 .. Len(resp.columns) :
               i # j => resp.columns[i] # resp.columns[j]
        /\ resp.selected_features = resp.columns

\* fewer columns asked for than X has, with tied scores at the cut
C23_Witness ==
    /\ req.endpoint = "select_k_best" /\ ~resp.raised
    /\ req.n = 3 /\ req.k = 2
    /\ req.scores[1] = req.scores[2] /\ req.scores[2] = req.scores[3]
    /\ Len(resp.columns) = 2


\* C24: MLflow is optional for predictions.  While the readiness probe
\* would answer ready true, a /predict with a valid patient that names a
\* loaded model whose classifier works is answered 200 with a prediction,
\* whether or not MLflow can be reached.
C24_ReadyPredictsWithoutMlflow ==
    (/\ service = "fastapi"
     /\ resp.endpoint = "predict"
     /\ resp.status # 422
     /\ req.model_name \in Elems(models)
     /\ ~req.beh.fails
     /\ readiness_check(models, TRUE, req.mlflowUp).ready)
        => resp.status = 200


\* C25: when reload_models has answered, the registry holds exactly the
\* known models whose file exists and loads, each once, whatever it held
\* before; the answer lists that registry and the count it reports is the
\* registry's size.
C25_ReloadIsExactlyLoadable ==
    (service = "fastapi" /\ resp.endpoint = "reload") =>
        /\ Elems(models) = {m \in ModelNames : req.files[m] = "ok"}
        /\ Len(models) = Cardinality(Elems(models))
        /\ resp.models = models
        /\ resp.loaded_count = Len(models)
        /\ resp.status = 200

\* a reload has dropped a model that was served and whose file no longer
\* loads, and kept or added others, beside a file that is missing
C25_Witness ==
    /\ resp.endpoint = "reload"
    /\ \E m \in Elems(req.before) : req.files[m] = "corrupt"
    /\ \E m \in ModelNames : req.files[m] = "absent"
    /\ \E m \in ModelNames \ Elems(req.before) : m \in Elems(models)
    /\ Elems(req.before) \cap Elems(models) # {}


\* a task has run its first block and is not over
StartedTaskAlive == \E t \in BagToSet(tasks) : t.pc # "start"

\* the status of a run that is over: completed, or failed with an error
RunIsOver ==
    /\ ~training_status.is_training
    /\ training_status.completed_at # "None"
    /\ \/ /\ training_status.message = "Training completed successfully"
          /\ training_status.progress = 100
       \/ training_status.error # "None"

\* C26: when every call of the trainer returns or raises, a background task
\* that has started leads to a status with is_training false, completed_at
\* set and either the message 'Training completed successfully' with
\* progress 100 or an error that is not null.
C26_StartedTaskFinishes == StartedTaskAlive ~> RunIsOver

\* a task has marked the run as started and the status is that of a run
\* in progress
C26_Witness ==
    /\ StartedTaskAlive
    /\ training_status.is_training
    /\ training_status.completed_at = "None"
    /\ training_status.error = "None"


\* a training request is answered in this step
TrainingAnswered(endpoint) ==
    resp = NoResp /\ resp' # NoResp /\ req'.endpoint = endpoint

\* C27: a training request that is rejected schedules no background task
\* and changes no field of the status: train-single with an unknown name is
\* answered 400, train-all or train-single while is_training is set 409,
\* train-all without the processed data files 404 and cancel while nothing
\* is training 400, and every step that answers one of the three requests
\* with 400, 404 or 409 leaves training_status and the tasks as they were.
C27_RejectedRequestChangesNothing ==
    [][/\ (TrainingAnswered("train-single")
              /\ req'.model_name \notin Elems(all_models))
           => resp'.status = 400
       /\ (TrainingAnswered("train-single")
              /\ req'.model_name \in Elems(all_models)
              /\ training_status.is_training)
           => resp'.status = 409
       /\ (TrainingAnswered("train-all") /\ training_status.is_training)
           => resp'.status = 409
       /\ (TrainingAnswered("train-all")
              /\ ~training_status.is_training /\ ~req'.filesExist)
           => resp'.status = 404
       /\ (TrainingAnswered("cancel") /\ ~training_status.is_training)
           => resp'.status = 400
       /\ \A e \in {"train-all", "train-single", "cancel"} :
              (TrainingAnswered(e) /\ resp'.status \in {400, 404, 409})
                  => UNCHANGED <<training_status, tasks>>]_vars

\* a request has been refused while a task was running and the status
\* showed a training in progress
C27_Witness ==
    /\ req.endpoint \in {"train-all", "train-single"}
    /\ resp.status = 409
    /\ training_status.is_training
    /\ tasks # EmptyBag


\* a valid batch request has been answered by the handler
BatchAnswered ==
    /\ service = "fastapi"
    /\ req.endpoint = "batch" /\ resp.endpoint = "batch"
    /\ req.valid

\* what predict answers for patient i of the batch
PatientAnswer(i) == predict(models, req.model_name, req.behs[i], req.mlflowUp)

\* C28: predict_batch is all-or-nothing and keeps the order: an answer 200
\* holds one prediction per patient, the i-th being the successful
\* prediction of the i-th patient, and total_patients is the number of
\* patients (0 for an empty list); if the prediction of any patient fails,
\* the answer is an error, and an error carries no prediction.
C28_BatchAllOrNothingInOrder ==
    BatchAnswered =>
        /\ resp.status = 200 =>
               /\ Len(resp.predictions) = req.n
               /\ resp.total_patients = req.n
               /\ \A i \in 1 .. req.n :
                      /\ resp.predictions[i] = PatientAnswer(i)
                      /\ resp.predictions[i].status = 200
        /\ (\E i \in 1 .. req.n : PatientAnswer(i).status # 200) =>
               resp.status \in {404, 500}
        /\ resp.status # 200 =>
               resp.predictions = <<>> /\ resp.total_patients = 0

\* a batch whose first patient was predicted and whose second failed
C28_Witness ==
    /\ BatchAnswered
    /\ req.n = 2
    /\ PatientAnswer(1).status = 200
    /\ PatientAnswer(2).status = 500
    /\ resp.calls = 2


\* one background task is alive and it has run its first block
SingleRun ==
    /\ BagCardinality(tasks) = 1
    /\ \A t \in BagToSet(tasks) : t.pc # "start"

\* C29: during a single training run, whatever the list of models, each
\* step of the task leaves the reported progress within 0..100 and not below
\* what it was, and the progress is 100 only with the status of a run that
\* completed successfully.
C29_ProgressNeverDecreases ==
    [][(SingleRun /\ TaskSteps) =>
           /\ training_status'.progress \in 0 .. 100
           /\ training_status'.progress >= training_status.progress
           /\ training_status'.progress = 100 =>
                  training_status'.message = "Training completed successfully"]_vars

====
